---- MODULE Spec2Model ----
(***************************************************************************)
(* streamlog: the capture loop of cmd/listinterfaces/main.go (main,        *)
(* processPacket, extractSNI) and internal/capture/interfaces.go           *)
(* (FindInterfaces).                                                       *)
(*                                                                         *)
(* Three specifications share the module:                                  *)
(*   Spec          a packet is handed to extractSNI / processPacket         *)
(*   SpecDispatch  the select loop of main and the goroutines it spawns    *)
(*                 (FairDispatch adds the fairness of Go's select)         *)
(*   SpecIfaces    FindInterfaces over the devices the finder returns      *)
(* Byte slices are sequences of 0..255; Go's 0-based payload[i] is p[i+1]. *)
(***************************************************************************)
EXTENDS Integers, Sequences, FiniteSets, TLC

VARIABLES
    \* ---- extractSNI / processPacket
    hello,      \* the ClientHello description the payload was encoded from
    pkt,        \* the gopacket.Packet: decoded layers and application payload
    step,       \* "input", "extracted" (extractSNI returned), "processed"
    sni,        \* the string extractSNI returned (<<>> is "")
    reads,      \* every index i of a payload[i] evaluated
    slice,      \* <<a, b>> of the payload[a:b] evaluated, <<>> if none
    printed,    \* the lines processPacket wrote with fmt.Printf
    \* ---- main
    pc,         \* "select", "ret66" (return of the stop case), "ret69"
    stopChan,   \* number of signals buffered in stop (capacity 1)
    packetChan, \* number of packets buffered in packetChan
    chanClosed, \* packetChan has been closed by the packet source
    inflight,   \* number of processPacket goroutines that have not returned
    received,   \* number of packets the loop has taken from packetChan
    logOut,     \* the lines main wrote with log.Println inside the loop
    exitCode,   \* the status the process exits with, -1 while main runs
    \* ---- FindInterfaces
    devices,    \* what findAllDevs returns: the []pcap.Interface
    finderErr,  \* what findAllDevs returns: the error ("nil" is nil)
    fiStep,     \* "input", "returned"
    ifaces,     \* FindInterfaces' first result
    err         \* FindInterfaces' second result

sniVars == <<hello, pkt, step, sni, reads, slice, printed>>
mainVars ==
    <<pc, stopChan, packetChan, chanClosed, inflight, received, logOut, exitCode>>
fiVars == <<devices, finderErr, fiStep, ifaces, err>>
vars == <<sniVars, mainVars, fiVars>>

-----------------------------------------------------------------------------
(* Bounds of the model *)

MaxExts == 2      \* extensions in a generated well-formed ClientHello
MaxName == 2      \* bytes in a generated host name
MaxFrames == 4    \* packets the loop takes from packetChan
ChanCap == 2      \* packets buffered in packetChan at once
MaxDevs == 2      \* devices the finder returns
MaxAddrs == 2     \* addresses of one device

(* Constants of the program *)

MinHelloLen == 43       \* len(payload) < 43
HandshakeRecord == 22   \* payload[0] == 22
ClientHelloType == 1    \* payload[5] == 1
ServerNameExt == 0      \* extType == 0
StopCap == 1            \* make(chan os.Signal, 1)

-----------------------------------------------------------------------------
(* Byte-slice primitives *)

InBounds(p, i) == i >= 0 /\ i < Len(p)

\* payload[i]. An index out of range panics in Go; the index is recorded in
\* reads by the caller and the value is then never used by a run that counts.
Byte(p, i) == IF InBounds(p, i) THEN p[i + 1] ELSE 0

\* int(payload[i])<<8 | int(payload[i+1])
U16(p, i) == Byte(p, i) * 256 + Byte(p, i + 1)

\* payload[a:b]
SliceOf(p, a, b) ==
    IF 0 <= a /\ a <= b /\ b <= Len(p) THEN SubSeq(p, a + 1, b) ELSE <<>>

Absent(rd) == [sni |-> <<>>, reads |-> rd, slice |-> <<>>]

-----------------------------------------------------------------------------
(* extractSNI *)

\* Reads the name length from the list-length field instead of the entry's.
parseServerName_listLen(p, offset, extLen, end, rd) ==
    IF offset + extLen > end THEN Absent(rd)
    ELSE IF extLen < 5 THEN Absent(rd)
    ELSE LET sniLen == U16(p, offset)
             rd2 == rd \cup {offset, offset + 1}
         IN  IF offset + 5 + sniLen > end THEN Absent(rd2)
             ELSE [sni |-> SliceOf(p, offset + 5, offset + 5 + sniLen),
                   reads |-> rd2,
                   slice |-> <<offset + 5, offset + 5 + sniLen>>]

\* The body of `if extType == 0 { ... }`; offset is past the 4-byte header.
parseServerName(p, offset, extLen, end, rd) ==
    IF offset + extLen > end THEN Absent(rd)
    ELSE IF extLen < 5 THEN Absent(rd)
    ELSE LET sniLen == U16(p, offset + 3)
             rd2 == rd \cup {offset + 3, offset + 4}
         IN  IF offset + 5 + sniLen > end THEN Absent(rd2)
             ELSE [sni |-> SliceOf(p, offset + 5, offset + 5 + sniLen),
                   reads |-> rd2,
                   slice |-> <<offset + 5, offset + 5 + sniLen>>]

\* for offset+4 <= end { ... }
RECURSIVE walkExtensions(_, _, _, _)
walkExtensions(p, offset, end, rd) ==
    IF offset + 4 <= end
    THEN LET extType == U16(p, offset)
             extLen == U16(p, offset + 2)
             rd2 == rd \cup (offset .. (offset + 3))
         IN  IF extType = ServerNameExt
             THEN parseServerName(p, offset + 4, extLen, end, rd2)
             ELSE walkExtensions(p, offset + 4 + extLen, end, rd2)
    ELSE Absent(rd)

\* The end of the extensions block, taken from the length field unclamped.
extensionsEnd_unclamped(offset, extensionsLen, n) == offset + extensionsLen

\* end := offset + extensionsLen; if end > len(payload) { end = len(payload) }
extensionsEnd(offset, extensionsLen, n) ==
    IF offset + extensionsLen > n THEN n ELSE offset + extensionsLen

extractSNI(payload) ==
    LET n == Len(payload)
        o1 == 5 + 4 + 2 + 32
    IN
    IF n < MinHelloLen THEN Absent({})
    ELSE IF o1 >= n THEN Absent({})
    ELSE
    LET sessIDLen == Byte(payload, o1)
        o2 == o1 + 1 + sessIDLen
        r1 == {o1}
    IN
    IF o2 + 2 > n THEN Absent(r1)
    ELSE
    LET cipherSuitesLen == U16(payload, o2)
        o3 == o2 + 2 + cipherSuitesLen
        r2 == r1 \cup {o2, o2 + 1}
    IN
    IF o3 + 1 > n THEN Absent(r2)
    ELSE
    LET compMethodsLen == Byte(payload, o3)
        o4 == o3 + 1 + compMethodsLen
        r3 == r2 \cup {o3}
    IN
    IF o4 + 2 > n THEN Absent(r3)
    ELSE
    LET extensionsLen == U16(payload, o4)
        o5 == o4 + 2
        r4 == r3 \cup {o4, o4 + 1}
    IN  walkExtensions(payload, o5, extensionsEnd(o5, extensionsLen, n), r4)

-----------------------------------------------------------------------------
(* processPacket *)

DNSLine(q) == [tag |-> "DNS", name |-> q.Name, type |-> q.Type]
TLSLine(name) == [tag |-> "TLS", name |-> name, type |-> 0]

RECURSIVE DNSLines(_)
DNSLines(qs) ==
    IF qs = <<>> THEN <<>> ELSE <<DNSLine(Head(qs))>> \o DNSLines(Tail(qs))

\* The TCP branch: `if len(payload) > 5 && payload[0] == 22 { if payload[5] == 1`
tlsBranch(payload) ==
    IF Len(payload) > 5 /\ Byte(payload, 0) = HandshakeRecord
    THEN IF Byte(payload, 5) = ClientHelloType
         THEN LET r == extractSNI(payload)
              IN  [printed |-> IF r.sni # <<>> THEN <<TLSLine(r.sni)>> ELSE <<>>,
                   reads |-> r.reads \cup {0, 5},
                   slice |-> r.slice]
         ELSE [printed |-> <<>>, reads |-> {0, 5}, slice |-> <<>>]
    ELSE [printed |-> <<>>,
          reads |-> IF Len(payload) > 5 THEN {0} ELSE {},
          slice |-> <<>>]

processPacket(packet) ==
    IF packet.hasDNS
    THEN [printed |-> IF packet.QR THEN <<>> ELSE DNSLines(packet.Questions),
          reads |-> {}, slice |-> <<>>]
    ELSE IF packet.hasTCP /\ packet.hasApp
         THEN tlsBranch(packet.payload)
         ELSE [printed |-> <<>>, reads |-> {}, slice |-> <<>>]

-----------------------------------------------------------------------------
(* The wire format of a ClientHello, as the comments of extractSNI lay it   *)
(* out. A description h carries, for every length prefix, the declared      *)
(* value beside the bytes that actually follow, and the number of bytes     *)
(* cut from the end of the buffer.                                          *)

BE16(n) == <<n \div 256, n % 256>>

\* Record header (5), handshake header (4), version (2), random (32).
Header(b0, b5) ==
    [i \in 1 .. MinHelloLen |-> IF i = 1 THEN b0 ELSE IF i = 6 THEN b5 ELSE 0]

\* The value of an extension: a server_name list (list length, name type,
\* name length, name, further entries) or opaque bytes.
ExtBody(e) ==
    IF e.type = ServerNameExt
    THEN BE16(3 + Len(e.name) + Len(e.rest)) \o <<e.nameType>>
         \o BE16(e.nameDecl) \o e.name \o e.rest
    ELSE e.name \o e.rest

EncodeExt(e) == BE16(e.type) \o BE16(e.lenDecl) \o ExtBody(e)

RECURSIVE EncodeExts(_)
EncodeExts(es) ==
    IF es = <<>> THEN <<>> ELSE EncodeExt(Head(es)) \o EncodeExts(Tail(es))

EncodeFull(h) ==
    Header(h.b0, h.b5) \o <<h.sidDecl>> \o h.sid \o BE16(h.csDecl) \o h.cs
    \o <<h.cmDecl>> \o h.cm \o BE16(h.extsDecl) \o EncodeExts(h.exts)

Encode(h) ==
    LET full == EncodeFull(h)
    IN  IF h.cut >= Len(full) THEN <<>> ELSE SubSeq(full, 1, Len(full) - h.cut)

-----------------------------------------------------------------------------
(* The inputs *)

OtherExt(t, data) ==
    [type |-> t, lenDecl |-> Len(data), nameType |-> 0, nameDecl |-> 0,
     name |-> data, rest |-> <<>>]

\* A server_name extension; lenDecl and nameDecl are the declared lengths.
SNIExt(lenDecl, nameType, nameDecl, name, rest) ==
    [type |-> ServerNameExt, lenDecl |-> lenDecl, nameType |-> nameType,
     nameDecl |-> nameDecl, name |-> name, rest |-> rest]

GoodSNI(name, rest) == SNIExt(5 + Len(name) + Len(rest), 0, Len(name), name, rest)

SeqsUpTo(S, n) == UNION {[1 .. k -> S] : k \in 0 .. n}

\* "a", "ab", "abc", ... and "b".
Names == {[i \in 1 .. k |-> 96 + i] : k \in 1 .. MaxName} \cup {<<98>>}

GoodExts ==
    {OtherExt(10, <<>>), OtherExt(256, <<7>>)}
    \cup {GoodSNI(nm, <<>>) : nm \in Names}
    \cup {GoodSNI(<<97>>, <<0, 0, 1, 98>>)}

Hello(b0, b5, sidDecl, sid, csDecl, cs, cmDecl, cm, extsDelta, exts, cut) ==
    [b0 |-> b0, b5 |-> b5, sidDecl |-> sidDecl, sid |-> sid,
     csDecl |-> csDecl, cs |-> cs, cmDecl |-> cmDecl, cm |-> cm,
     extsDecl |-> Len(EncodeExts(exts)) + extsDelta, exts |-> exts, cut |-> cut]

GoodHello(sid, cs, cm, exts) ==
    Hello(HandshakeRecord, ClientHelloType, Len(sid), sid, Len(cs), cs,
          Len(cm), cm, 0, exts, 0)

BaseExts == <<OtherExt(10, <<>>), GoodSNI(<<97, 98>>, <<>>), OtherExt(11, <<1, 2>>)>>
BaseHello == GoodHello(<<7>>, <<19, 1>>, <<0>>, BaseExts)

\* Every length prefix consistent with the buffer.
WellFormedHellos ==
    {GoodHello(sid, cs, cm, exts) :
        sid \in {<<>>, <<7>>}, cs \in {<<>>, <<19, 1>>}, cm \in {<<>>, <<0>>},
        exts \in SeqsUpTo(GoodExts, MaxExts)}

\* Other record and handshake type bytes in front of a well-formed body.
RetypedHellos ==
    {[BaseHello EXCEPT !.b0 = b0, !.b5 = b5] : b0 \in {22, 23, 0}, b5 \in {1, 2, 0}}

\* Length prefixes that disagree with the bytes that follow them.
SkewedHellos ==
    {Hello(HandshakeRecord, ClientHelloType, sidDecl, <<7>>, csDecl, <<19, 1>>,
           cmDecl, <<0>>, extsDelta,
           pre \o <<SNIExt(lenDecl, nameType, nameDecl, <<97, 98>>, <<>>)>> \o post,
           0) :
        sidDecl \in {1, 2, 255}, csDecl \in {2, 258, 65535}, cmDecl \in {1, 255},
        extsDelta \in {0 - 1, 0, 1, 300}, lenDecl \in {4, 5, 6, 7, 8, 65535},
        nameType \in {0, 1}, nameDecl \in (0 .. 4) \cup {65535},
        pre \in {<<>>, <<OtherExt(10, <<>>)>>},
        post \in {<<>>, <<OtherExt(11, <<1, 2>>)>>}}

\* A buffer truncated at every length.
TruncatedHellos ==
    {[BaseHello EXCEPT !.cut = c] : c \in 0 .. Len(EncodeFull(BaseHello))}

Hellos == WellFormedHellos \cup RetypedHellos \cup SkewedHellos \cup TruncatedHellos

Question(name, type) == [Name |-> name, Type |-> type]
Questions == {Question(<<97>>, 1), Question(<<98>>, 28)}

TLSPacket(h) ==
    [hasDNS |-> FALSE, QR |-> FALSE, Questions |-> <<>>, hasTCP |-> TRUE,
     hasApp |-> TRUE, payload |-> Encode(h)]

\* Packets of the other kinds, around the payload of BaseHello.
OtherPackets ==
    {[TLSPacket(BaseHello) EXCEPT !.hasDNS = TRUE, !.QR = qr, !.Questions = qs,
                                  !.hasTCP = tcp] :
        qr \in BOOLEAN, qs \in SeqsUpTo(Questions, 2), tcp \in BOOLEAN}
    \cup {[TLSPacket(BaseHello) EXCEPT !.hasTCP = tcp, !.hasApp = app] :
        tcp \in BOOLEAN, app \in BOOLEAN}

InitMain ==
    /\ pc = "select"
    /\ stopChan = 0
    /\ packetChan = 0
    /\ chanClosed = FALSE
    /\ inflight = 0
    /\ received = 0
    /\ logOut = <<>>
    /\ exitCode = 0 - 1

InitIfaces ==
    /\ devices = <<>>
    /\ finderErr = "nil"
    /\ fiStep = "input"
    /\ ifaces = <<>>
    /\ err = "nil"

InitSNI ==
    /\ hello \in Hellos
    /\ pkt \in {TLSPacket(hello)} \cup (IF hello = BaseHello THEN OtherPackets ELSE {})
    /\ step = "input"
    /\ sni = <<>>
    /\ reads = {}
    /\ slice = <<>>
    /\ printed = <<>>

\* A direct call extractSNI(payload).
CallExtractSNI ==
    /\ step = "input"
    /\ LET r == extractSNI(pkt.payload)
       IN  /\ sni' = r.sni
           /\ reads' = r.reads
           /\ slice' = r.slice
    /\ step' = "extracted"
    /\ UNCHANGED <<hello, pkt, printed, mainVars, fiVars>>

\* The goroutine body processPacket(packet).
CallProcessPacket ==
    /\ step = "input"
    /\ LET r == processPacket(pkt)
       IN  /\ printed' = r.printed
           /\ reads' = r.reads
           /\ slice' = r.slice
    /\ step' = "processed"
    /\ UNCHANGED <<hello, pkt, sni, mainVars, fiVars>>

Init == InitSNI /\ InitMain /\ InitIfaces

Next == CallExtractSNI \/ CallProcessPacket

Spec == Init /\ [][Next]_vars

-----------------------------------------------------------------------------
(* What a description says about its own buffer *)

SNIIndexes(h) == {i \in 1 .. Len(h.exts) : h.exts[i].type = ServerNameExt}
HasSNI(h) == SNIIndexes(h) # {}
FirstSNIIndex(h) == CHOOSE i \in SNIIndexes(h) : \A j \in SNIIndexes(h) : i <= j
FirstSNI(h) == h.exts[FirstSNIIndex(h)]

\* The length prefixes of h that disagree with the bytes they count.
LengthFaults(h) ==
    (IF h.sidDecl # Len(h.sid) THEN {<<"sessionID", 0>>} ELSE {})
    \cup (IF h.csDecl # Len(h.cs) THEN {<<"cipherSuites", 0>>} ELSE {})
    \cup (IF h.cmDecl # Len(h.cm) THEN {<<"compMethods", 0>>} ELSE {})
    \cup (IF h.extsDecl # Len(EncodeExts(h.exts)) THEN {<<"extensions", 0>>} ELSE {})
    \cup {<<"ext", i>> : i \in {j \in 1 .. Len(h.exts) :
                                  h.exts[j].lenDecl # Len(ExtBody(h.exts[j]))}}
    \cup {<<"name", i>> : i \in {j \in SNIIndexes(h) :
                                   h.exts[j].nameDecl # Len(h.exts[j].name)}}

\* Record type 22, handshake type 1, nothing cut off, every length prefix
\* consistent with the buffer.
WellFormed(h) ==
    /\ h.b0 = HandshakeRecord
    /\ h.b5 = ClientHelloType
    /\ h.cut = 0
    /\ LengthFaults(h) = {}

\* Offset of the first byte after each length prefix, and of the block.
SidStart(h) == MinHelloLen + 1
CsStart(h) == SidStart(h) + Len(h.sid) + 2
CmStart(h) == CsStart(h) + Len(h.cs) + 1
ExtsStart(h) == CmStart(h) + Len(h.cm) + 2

\* Exactly one length prefix is wrong, and the end offset computed from it
\* lies past the end of the payload.
Overshoots(h) ==
    LET n == Len(Encode(h))
        last == Len(h.exts)
    IN  /\ h.cut = 0
        /\ \/ LengthFaults(h) = {<<"sessionID", 0>>} /\ SidStart(h) + h.sidDecl > n
           \/ LengthFaults(h) = {<<"cipherSuites", 0>>} /\ CsStart(h) + h.csDecl > n
           \/ LengthFaults(h) = {<<"compMethods", 0>>} /\ CmStart(h) + h.cmDecl > n
           \/ LengthFaults(h) = {<<"extensions", 0>>} /\ ExtsStart(h) + h.extsDecl > n
           \/ /\ last > 0
              /\ LengthFaults(h) = {<<"ext", last>>}
              /\ h.exts[last].lenDecl > Len(ExtBody(h.exts[last]))
           \/ /\ last > 0
              /\ LengthFaults(h) = {<<"name", last>>}
              /\ h.exts[last].nameDecl > Len(h.exts[last].name) + Len(h.exts[last].rest)

-----------------------------------------------------------------------------
(* Claims about extractSNI *)

\* C1: extractSNI is total and memory-safe: every payload[i] it evaluates has
\* 0 <= i < len(payload), every payload[a:b] has 0 <= a <= b <= len(payload),
\* for payloads of any length and any values in the length fields.
C1_MemorySafe ==
    step \in {"extracted", "processed"} =>
        /\ \A i \in reads : InBounds(pkt.payload, i)
        /\ slice # <<>> =>
              /\ 0 <= slice[1]
              /\ slice[1] <= slice[2]
              /\ slice[2] <= Len(pkt.payload)

\* A truncated buffer was walked up to the point where it ends.
C1_Witness ==
    /\ step = "extracted"
    /\ hello.cut > 0
    /\ Len(pkt.payload) > MinHelloLen
    /\ Cardinality(reads) >= 6
    /\ sni = <<>>

\* C2: for a well-formed ClientHello with a server_name extension whose first
\* entry is a non-empty host_name h, extractSNI returns exactly h, whatever
\* extensions precede or follow it.
C2_ReturnsHostName ==
    (/\ step = "extracted"
     /\ WellFormed(hello)
     /\ HasSNI(hello)
     /\ FirstSNI(hello).nameType = 0
     /\ FirstSNI(hello).name # <<>>)
    => sni = FirstSNI(hello).name

\* The server_name extension stands between two other extensions.
C2_Witness ==
    /\ step = "extracted"
    /\ WellFormed(hello)
    /\ HasSNI(hello)
    /\ FirstSNIIndex(hello) > 1
    /\ FirstSNIIndex(hello) < Len(hello.exts)
    /\ hello.sid # <<>>
    /\ sni = FirstSNI(hello).name
    /\ Len(sni) = 2

\* C7: a name_length that makes the name end past the end of the server_name
\* extension's own value gives "absent" (every other length prefix being
\* consistent).
C7_NameWithinExtension ==
    (/\ step = "extracted"
     /\ hello.cut = 0
     /\ HasSNI(hello)
     /\ LengthFaults(hello) = {<<"name", FirstSNIIndex(hello)>>}
     /\ 5 + FirstSNI(hello).nameDecl > FirstSNI(hello).lenDecl)
    => sni = <<>>

\* C8: a length field whose computed end offset exceeds len(payload) aborts
\* the parse with "absent" (every other length prefix being consistent).
C8_OvershootAborts ==
    (step = "extracted" /\ Overshoots(hello)) => sni = <<>>

\* C9: extractSNI returns "absent" for every payload whose byte 0 is not 22
\* or whose byte 5 is not 1.
C9_TypesRevalidated ==
    (/\ step = "extracted"
     /\ Len(pkt.payload) > 5
     /\ \/ pkt.payload[1] # HandshakeRecord
        \/ pkt.payload[6] # ClientHelloType)
    => sni = <<>>

\* C10: a returned hostname comes from a server_name entry whose name_type
\* is host_name (0).
C10_HostNameTypeOnly ==
    (/\ step = "extracted"
     /\ WellFormed(hello)
     /\ HasSNI(hello)
     /\ sni # <<>>)
    => FirstSNI(hello).nameType = 0

-----------------------------------------------------------------------------
(* main: the select loop, the packet source feeding packetChan, the signal  *)
(* handler feeding stop, and the goroutines started by `go processPacket`.  *)

IdleSNI ==
    /\ hello = BaseHello
    /\ pkt = TLSPacket(BaseHello)
    /\ step = "input"
    /\ sni = <<>>
    /\ reads = {}
    /\ slice = <<>>
    /\ printed = <<>>

InitDispatch == IdleSNI /\ InitMain /\ InitIfaces

\* signal.Notify(stop, SIGINT, SIGTERM): the runtime sends without blocking,
\* so a signal that finds the buffer full is dropped.
Signal ==
    /\ pc = "select"
    /\ stopChan' = IF stopChan < StopCap THEN stopChan + 1 ELSE stopChan
    /\ UNCHANGED <<pc, packetChan, chanClosed, inflight, received, logOut,
                   exitCode, sniVars, fiVars>>

\* The packet source puts the next packet on packetChan.
SourceDeliver ==
    /\ pc = "select"
    /\ ~chanClosed
    /\ packetChan < ChanCap
    /\ packetChan' = packetChan + 1
    /\ UNCHANGED <<pc, stopChan, chanClosed, inflight, received, logOut,
                   exitCode, sniVars, fiVars>>

\* The packet source fails or reaches the end of the stream: it closes
\* packetChan.
SourceClose ==
    /\ pc = "select"
    /\ ~chanClosed
    /\ chanClosed' = TRUE
    /\ UNCHANGED <<pc, stopChan, packetChan, inflight, received, logOut,
                   exitCode, sniVars, fiVars>>

\* The stop case, taken only once no goroutine is in flight.
SelectStop_waits ==
    /\ pc = "select"
    /\ stopChan > 0
    /\ inflight = 0
    /\ stopChan' = stopChan - 1
    /\ logOut' = Append(logOut, "Stopping capture...")
    /\ pc' = "ret66"
    /\ exitCode' = 0
    /\ UNCHANGED <<packetChan, chanClosed, inflight, received, sniVars, fiVars>>

\* case <-stop: log.Println("Stopping capture..."); return
SelectStop ==
    /\ pc = "select"
    /\ stopChan > 0
    /\ stopChan' = stopChan - 1
    /\ logOut' = Append(logOut, "Stopping capture...")
    /\ pc' = "ret66"
    /\ exitCode' = 0
    /\ UNCHANGED <<packetChan, chanClosed, inflight, received, sniVars, fiVars>>

\* case packet, ok := <-packetChan with ok: go processPacket(packet)
RecvPacket ==
    /\ pc = "select"
    /\ packetChan > 0
    /\ received < MaxFrames
    /\ packetChan' = packetChan - 1
    /\ received' = received + 1
    /\ inflight' = inflight + 1
    /\ UNCHANGED <<pc, stopChan, chanClosed, logOut, exitCode, sniVars, fiVars>>

\* case packet, ok := <-packetChan with !ok: return. A closed channel gives
\* its buffered packets first.
RecvClosed ==
    /\ pc = "select"
    /\ chanClosed
    /\ packetChan = 0
    /\ pc' = "ret69"
    /\ exitCode' = 0
    /\ UNCHANGED <<stopChan, packetChan, chanClosed, inflight, received, logOut,
                   sniVars, fiVars>>

\* A processPacket goroutine returns.
TaskDone ==
    /\ inflight > 0
    /\ inflight' = inflight - 1
    /\ UNCHANGED <<pc, stopChan, packetChan, chanClosed, received, logOut,
                   exitCode, sniVars, fiVars>>

NextDispatch ==
    \/ Signal
    \/ SourceDeliver
    \/ SourceClose
    \/ SelectStop
    \/ RecvPacket
    \/ RecvClosed
    \/ TaskDone

SpecDispatch == InitDispatch /\ [][NextDispatch]_vars

\* Go's select chooses among its ready cases uniformly at random, so a case
\* that stays ready is eventually chosen.
FairDispatch == SpecDispatch /\ WF_vars(SelectStop)

\* C3: the number of processPacket tasks in flight never exceeds a fixed
\* limit that is independent of how many frames the source delivers (here:
\* it stays below the number of frames delivered, MaxFrames).
C3_BoundedInFlight == inflight < MaxFrames

\* C4: once a signal is buffered in stop, the loop eventually returns; after
\* it has returned it takes no packet; and the stop case is ready whatever
\* the number of goroutines in flight.
C4_Shutdown ==
    /\ (pc = "select" /\ stopChan > 0) ~> (pc # "select")
    /\ [][pc # "select" => (received' = received /\ packetChan' = packetChan)]_vars
    /\ []((pc = "select" /\ stopChan > 0) => ENABLED SelectStop)

\* The loop returned by the stop case with packets waiting and goroutines
\* in flight.
C4_Witness ==
    /\ pc = "ret66"
    /\ packetChan > 0
    /\ inflight > 0
    /\ received > 0

\* C5: when packetChan is closed the loop's return reports the failure:
\* something is logged or the exit status is not that of a normal shutdown.
C5_SourceFailureReported ==
    pc = "ret69" => (logOut # <<>> \/ exitCode # 0)

-----------------------------------------------------------------------------
(* FindInterfaces *)

NilIP == <<>>

\* net.IP.String() of a 4-byte address; "<nil>" for a nil IP.
IPString(ip) ==
    IF ip = NilIP THEN "<nil>"
    ELSE ToString(ip[1]) \o "." \o ToString(ip[2]) \o "."
         \o ToString(ip[3]) \o "." \o ToString(ip[4])

\* The inner loop without the nil test.
addrStrings_noNilTest(addresses, i, addrs) ==
    [k \in 1 .. Len(addresses) |-> IPString(addresses[k])]

\* for _, a := range d.Addresses { if a.IP != nil { addrs = append(...) } }
RECURSIVE addrStrings(_, _, _)
addrStrings(addresses, i, addrs) ==
    IF i > Len(addresses) THEN addrs
    ELSE addrStrings(addresses, i + 1,
                     IF addresses[i] # NilIP
                     THEN Append(addrs, IPString(addresses[i]))
                     ELSE addrs)

\* for _, d := range devices { ifaces = append(ifaces, Interface{...}) }
RECURSIVE convertDevices(_, _, _)
convertDevices(devs, i, out) ==
    IF i > Len(devs) THEN out
    ELSE convertDevices(devs, i + 1,
             Append(out, [Name |-> devs[i].Name,
                          Description |-> devs[i].Description,
                          Addresses |-> addrStrings(devs[i].Addresses, 1, <<>>)]))

FindInterfaces(devs, e) ==
    IF e # "nil" THEN [ifaces |-> <<>>, err |-> e]
    ELSE [ifaces |-> convertDevices(devs, 1, <<>>), err |-> "nil"]

Device(name, description, addresses) ==
    [Name |-> name, Description |-> description, Addresses |-> addresses]

Devices ==
    {Device("eth0", "Ethernet adapter", as) :
        as \in SeqsUpTo({NilIP, <<192, 168, 1, 42>>}, MaxAddrs)}
    \cup {Device("lo0", "", as) : as \in {<<>>, <<NilIP, <<127, 0, 0, 1>>>>}}

InitFind ==
    /\ IdleSNI
    /\ InitMain
    /\ devices \in SeqsUpTo(Devices, MaxDevs)
    /\ finderErr \in {"nil", "permission denied"}
    /\ fiStep = "input"
    /\ ifaces = <<>>
    /\ err = "nil"

CallFindInterfaces ==
    /\ fiStep = "input"
    /\ LET r == FindInterfaces(devices, finderErr)
       IN  /\ ifaces' = r.ifaces
           /\ err' = r.err
    /\ fiStep' = "returned"
    /\ UNCHANGED <<devices, finderErr, sniVars, mainVars>>

NextFind == CallFindInterfaces

SpecIfaces == InitFind /\ [][NextFind]_vars

NonNil(ip) == ip # NilIP

\* C6: with n devices and no error, FindInterfaces returns a nil error and n
\* Interface values in order, Name and Description copied, Addresses the
\* string forms of the device's non-nil IPs in order; with an error from the
\* finder it returns no interfaces and that error.
C6_MapsDevices ==
    fiStep = "returned" =>
        IF finderErr = "nil"
        THEN /\ err = "nil"
             /\ Len(ifaces) = Len(devices)
             /\ \A i \in 1 .. Len(devices) :
                   LET kept == SelectSeq(devices[i].Addresses, NonNil)
                   IN  /\ ifaces[i].Name = devices[i].Name
                       /\ ifaces[i].Description = devices[i].Description
                       /\ Len(ifaces[i].Addresses) = Len(kept)
                       /\ \A k \in 1 .. Len(kept) :
                             ifaces[i].Addresses[k] = IPString(kept[k])
        ELSE err = finderErr /\ ifaces = <<>>

\* Two devices were converted, one of them with a nil IP in front of a
\* real address.
C6_Witness ==
    /\ fiStep = "returned"
    /\ finderErr = "nil"
    /\ Len(ifaces) = 2
    /\ \E i \in 1 .. 2 :
          /\ Len(devices[i].Addresses) = 2
          /\ devices[i].Addresses[1] = NilIP
          /\ ifaces[i].Addresses = <<"192.168.1.42">>

====
